---- MODULE Spec2Model ----
(***************************************************************************)
(* Order lifecycle and inventory reconciliation of the store backend:      *)
(* POST /api/orders, POST /api/orders/:id/cancel, PATCH                    *)
(* /api/orders/:id/status and /payment-status (routes/orders-new.ts), the  *)
(* admin product routes of routes/products-new.ts, the cart routes of      *)
(* routes/cart.ts and the auth middleware of middleware/auth.ts.           *)
(*                                                                         *)
(* Every handler is an async function; between two awaited database calls  *)
(* another request may run.  One action of the model is one awaited        *)
(* database call together with the synchronous code that follows it up to  *)
(* the next await.  Money is counted in whole units.                       *)
(***************************************************************************)
EXTENDS Integers, Sequences, FiniteSets, TLC

\* ------------------------------------------------------------------ bounds
MaxItems    == 2    \* lines in one placement request
MaxQty      == 2    \* largest requested quantity of a line
MaxStock    == 3    \* largest stock an admin writes / the catalog starts with
MaxOrders   == 1    \* rows of the orders table
MaxConcOrders == 2  \* the same, when two handlers may be in flight at once
MaxRequests == 3    \* order requests (placements and cancellations) started
MaxConcRequests == 2 \* the same, when two handlers may be in flight at once
MaxAdminOps == 1    \* admin requests (status, product update, delete)
MaxAdminSeq == 2    \* the same, when only admin requests are made
MaxLogins == 2       \* admin-login requests
MaxCartRequests == 2 \* cart requests started
StockCap    == 4    \* no cancellation is started above this stock level

\* ---------------------------------------------------------------- universe
Procs      == {"r1", "r2"}            \* request handlers that may be in flight
Products   == {"X", "Y"}              \* ids a products row may have
ProductIds == Products \cup {"Z"}     \* "Z": an id with no row, ever
Users      == {"u1", "u2", "adm"}
Buyers     == {"u1", "u2"}            \* the users whose placements are explored
Prices     == {5, 10}
OriginalPrices == {15, 20}            \* products.original_price, 0: not set
ClientPrices == {1}                   \* a price field sent by the client
Reasons    == {"", "changed mind"}    \* "" is an absent reason
NoReason   == "null"
DefaultReason == "User requested cancellation"

Absent == "undefined"                 \* a field the request body does not have

validStatuses == {"pending", "processing", "shipped", "delivered", "cancelled"}
StatusInputs  == validStatuses \cup {"bogus", Absent}

validPaymentStatuses == {"pending", "paid", "failed", "refunded"}
PaymentStatusInputs  == validPaymentStatuses \cup {"bogus", Absent}

NoTracking     == "null"
TrackingInputs == {Absent, "TN1"}

\* users.role as read by authenticateToken
role(u) == IF u = "adm" THEN "admin" ELSE "user"

Accounts == Users \cup {"n1", "n2"}   \* n1, n2: people who may register
Tokens   == {"none", "garbage"} \cup Accounts  \* a: the token issued to account a
\* req.user when no identity is attached
NoUser   == [id |-> "undefined", email |-> "undefined", role |-> "undefined"]
\* req.user as authenticateToken attaches it for the token of user u
ReqUser(u) == [id |-> u, email |-> u, role |-> role(u)]

VARIABLES
    products,   \* products table: id -> [price, stock], rows may be deleted
    cart,       \* cart_items table: user -> product -> quantity (0: no line)
    orders,     \* orders table, the id of an order is its index
    pc,         \* per handler: the await it is suspended at
    loc,        \* per handler: the request and the handler's local variables
    pre,        \* per handler: the tables as they were when its request began
    aresp,      \* response of the admin request, when that is the latest request
    nreq,       \* order and cart requests started so far
    nadmin,     \* admin requests so far
    users,      \* users table (profile rows): id -> role
    authusers,  \* the identity provider's accounts
    gate        \* the request passing the auth middleware chain

vars == <<products, cart, orders, pc, loc, pre, aresp, nreq, nadmin, users, authusers, gate>>

\* ----------------------------------------------------------------- helpers
Item(pid, q, cp) == [product_id |-> pid, quantity |-> q, price |-> cp]
ItemInputs == {Item(pid, q, cp) : pid \in ProductIds, q \in 1..MaxQty, cp \in ClientPrices}

\* the fields of req.body.shipping_info that are present; {}: no shipping_info
ShippingFields == {"full_name", "address", "city", "state", "postal_code", "phone"}
ShippingInputs == {ShippingFields, {}} \cup {ShippingFields \ {f} : f \in ShippingFields}

RECURSIVE SumTotals(_)
SumTotals(s) == IF s = <<>> THEN 0 ELSE Head(s).total + SumTotals(Tail(s))

\* sum of the quantities of the lines of s that name product pid
RECURSIVE QtyOf(_, _)
QtyOf(s, pid) ==
    IF s = <<>> THEN 0
    ELSE (IF Head(s).product_id = pid THEN Head(s).quantity ELSE 0) + QtyOf(Tail(s), pid)

Tables == [products |-> products, cart |-> cart, orders |-> orders]

\* a handler is free to take a request; of two free handlers that have not
\* served anything yet, r1 takes the first request
Idle(p) == pc[p] = "idle" /\ (p = "r2" => loc["r1"].kind # "none")
\* one request at a time: the second handler is switched off
Sequential == \E q \in Procs : pc[q] = "off"
Quiet == \A q \in Procs : pc[q] \in {"idle", "off"}

\* the stock check off by one
InsufficientStockOffByOne(product, item) == product.stock + 1 < item.quantity

\* line 39: the stock check of one line
InsufficientStock(product, item) == product.stock < item.quantity

\* the line total taken from the price the client sent
ItemTotalClientPrice(product, item) == item.price * item.quantity

\* line 45: the total of one line
ItemTotal(product, item) == product.price * item.quantity

\* lines 48-55: the snapshot of one line
OrderItem(product_id, product, item) ==
    [product_id |-> product_id,
     price      |-> product.price,
     quantity   |-> item.quantity,
     total      |-> ItemTotal(product, item)]

\* lines 62-71: the inserted row
OrderRow(user, orderItems, total_price) ==
    [user_id |-> user, items |-> orderItems, total_price |-> total_price,
     status |-> "pending", payment_status |-> "pending",
     tracking_number |-> NoTracking, cancellation_reason |-> NoReason]

\* a clear that drops only the lines of the products just ordered
ClearedCartOrderedOnly(c, user, items) ==
    [c EXCEPT ![user] = [q \in Products |-> IF QtyOf(items, q) > 0 THEN 0 ELSE @[q]]]

\* lines 99-102: cart_items after delete().eq('user_id', user)
ClearedCart(c, user, items) == [c EXCEPT ![user] = [q \in Products |-> 0]]

\* line 92: the stock written back by a placement
Decremented(cur, item) == cur - item.quantity

\* the permission check without the admin exemption
PermittedOwnerOnly(u, order) == order.user_id = u

\* line 369: the permission check of a cancellation passes
Permitted(u, order) == ~(role(u) # "admin" /\ order.user_id # u)

\* the status guard without delivered
CancelRefusedShippedOnly(order) == order.status = "shipped"

\* line 374: the statuses a cancellation is refused in
CancelRefused(order) == order.status = "shipped" \/ order.status = "delivered"

\* a cancellation that also zeroes the stored total
CancelledRowZeroTotal(order, reason) ==
    [order EXCEPT !.status = "cancelled", !.total_price = 0,
                  !.cancellation_reason = IF reason = "" THEN DefaultReason ELSE reason]

\* lines 381-384: the row written by a cancellation
CancelledRow(order, reason) ==
    [order EXCEPT !.status = "cancelled",
                  !.cancellation_reason = IF reason = "" THEN DefaultReason ELSE reason]

\* a restore that overwrites the stock with the line's quantity
RestoredOverwrite(cur, item) == item.quantity

\* line 405: the stock written back by a cancellation
Restored(cur, item) == cur + item.quantity

RequestBudget == IF Sequential THEN MaxRequests ELSE MaxConcRequests
OrderBudget   == IF Sequential THEN MaxOrders ELSE MaxConcOrders

\* items: the lines of req.body.items the handler has looked at so far, n: the
\* length of req.body.items.  A line is drawn when the validation loop first
\* reads it; the handler reads nothing of a line before that.
\* base (history, not read by the handler): when a cancellation is the request
\* right after the successful placement of the same order, the products table
\* as it was before that placement.
\* cart requests: product_id, quantity and line (the :id of the route) are the
\* request; stock is product.stock as selected, existing the quantity of
\* existingItem, held whether the line id the handler holds still names a row,
\* lines the ids of the lines a GET answers with.
NoLoc == [kind |-> "none", actor |-> "u1", n |-> 0, items |-> <<>>, id |-> 0,
          reason |-> "", i |-> 0, orderItems |-> <<>>, total_price |-> 0, cur |-> 0,
          order |-> <<>>, base |-> <<>>, resp |-> "none",
          product_id |-> "", quantity |-> 0, line |-> <<>>, stock |-> 0,
          existing |-> 0, held |-> FALSE, lines |-> {}]

\* the handler returns: its locals die, the request and the response stay
Finish(p, l, r) ==
    /\ pc'  = [pc EXCEPT ![p] = "idle"]
    /\ loc' = [loc EXCEPT ![p] = [l EXCEPT !.resp = r, !.i = 0, !.cur = 0,
                                           !.orderItems = <<>>, !.total_price = 0,
                                           !.stock = 0, !.existing = 0, !.held = FALSE]]

\* Math.round of the quotient num / den, den > 0: the nearest integer, a half
\* goes up
MathRound(num, den) == (2 * num + den) \div (2 * den)

\* products-new.ts 131-132: discount_percentage of a new row
Discount(original_price, price) ==
    IF original_price # 0 THEN MathRound((original_price - price) * 100, original_price) ELSE 0

\* products-new.ts 134-154: the row POST /api/products inserts
ProductRow(price, original_price, stock) ==
    [price |-> price, original_price |-> original_price,
     discount_percentage |-> Discount(original_price, price),
     stock |-> stock, approved_by_ai |-> TRUE]

\* no request is passing the middleware
NoBody == [error |-> Absent]
NoGate == [route |-> "none", token |-> "none", at |-> 0, status |-> "none", user |-> NoUser,
           path |-> <<>>, input |-> <<>>, body |-> NoBody]

\* ------------------------------------------------------------------- Init
InitTables ==
    /\ \E s \in {1, MaxStock} :
           products = [p \in Products |->
                          IF p = "X" THEN ProductRow(10, 20, s) ELSE ProductRow(5, 0, MaxStock)]
    /\ cart = [u \in Users |-> [p \in Products |->
                  IF (u = "u1" /\ p = "Y") \/ (u = "u2" /\ p = "X") THEN 1 ELSE 0]]
    /\ orders = <<>>
    /\ loc = [p \in Procs |-> NoLoc]
    /\ pre = [p \in Procs |-> Tables]
    /\ aresp = "none"
    /\ nreq = 0
    /\ nadmin = 0
    /\ users = [u \in Users |-> role(u)]
    /\ authusers = Users
    /\ gate = NoGate

Init     == InitTables /\ pc = [p \in Procs |-> IF p = "r1" THEN "idle" ELSE "off"]
InitConc == InitTables /\ pc = [p \in Procs |-> "idle"]

\* --------------------------------------------- POST /api/orders (placement)
\* lines 10-26: destructure the body, validate, start the validation loop
PlaceOrder(p, u, n, shipping) ==
    /\ Idle(p)
    /\ nreq < RequestBudget
    /\ Len(orders) + Cardinality({q \in Procs : pc[q] \in {"check", "insert"}}) < OrderBudget
    /\ nreq' = nreq + 1
    /\ pre' = [pre EXCEPT ![p] = Tables]
    /\ LET l == [NoLoc EXCEPT !.kind = "place", !.actor = u, !.n = n, !.i = 1]
       IN  IF n = 0
             THEN Finish(p, l, "400 Items are required")
           ELSE IF ~({"address", "city"} \subseteq shipping)
             THEN Finish(p, l, "400 Shipping information is required")
           ELSE /\ pc'  = [pc EXCEPT ![p] = "check"]
                /\ loc' = [loc EXCEPT ![p] = l]
    /\ aresp' = "none"
    /\ UNCHANGED <<products, cart, orders, nadmin, users, authusers, gate>>

\* lines 28-56: one pass of the validation loop (select the product, check
\* its stock, snapshot the line)
PlaceCheck(p, item) ==
    /\ pc[p] = "check"
    /\ LET l    == [loc[p] EXCEPT !.items = Append(@, item)]
       IN  IF item.product_id \notin DOMAIN products
             THEN Finish(p, l, "400 Product not found")
           ELSE LET product   == products[item.product_id]
                    l2 == [l EXCEPT !.total_price = @ + ItemTotal(product, item),
                                    !.orderItems = Append(@, OrderItem(item.product_id, product, item)),
                                    !.i = IF l.i < l.n THEN l.i + 1 ELSE 1]
                IN  IF InsufficientStock(product, item)
                      THEN Finish(p, l, "400 Insufficient stock")
                    ELSE /\ loc' = [loc EXCEPT ![p] = l2]
                         /\ pc'  = [pc EXCEPT ![p] = IF l.i < l.n THEN "check" ELSE "insert"]
    /\ aresp' = "none"
    /\ UNCHANGED <<products, cart, orders, pre, nreq, nadmin, users, authusers, gate>>

\* lines 58-78: insert the order row; the insert may report a database error
PlaceInsert(p) ==
    /\ pc[p] = "insert"
    /\ \E orderError \in BOOLEAN :
         IF orderError
           THEN /\ Finish(p, loc[p], "500")
                /\ UNCHANGED orders
         ELSE /\ orders' = Append(orders, OrderRow(loc[p].actor, loc[p].orderItems,
                                                    loc[p].total_price))
              /\ loc' = [loc EXCEPT ![p].id = Len(orders) + 1]
              /\ pc'  = [pc EXCEPT ![p] = "decread"]
    /\ aresp' = "none"
    /\ UNCHANGED <<products, cart, pre, nreq, nadmin, users, authusers, gate>>

\* lines 81-88: select the current stock of the product of line i
PlaceStockRead(p) ==
    /\ pc[p] = "decread"
    /\ LET l    == loc[p]
           item == l.items[l.i]
       IN  IF item.product_id \in DOMAIN products
             THEN /\ loc' = [loc EXCEPT ![p].cur = products[item.product_id].stock]
                  /\ pc'  = [pc EXCEPT ![p] = "decwrite"]
           ELSE /\ loc' = [loc EXCEPT ![p].i = IF l.i < Len(l.items) THEN l.i + 1 ELSE 1]
                /\ pc'  = [pc EXCEPT ![p] = IF l.i < Len(l.items) THEN "decread" ELSE "clear"]
    /\ aresp' = "none"
    /\ UNCHANGED <<products, cart, orders, pre, nreq, nadmin, users, authusers, gate>>

\* lines 89-95: write back stock - quantity (no row: nothing is updated)
PlaceStockWrite(p) ==
    /\ pc[p] = "decwrite"
    /\ LET l    == loc[p]
           item == l.items[l.i]
       IN  /\ products' = IF item.product_id \in DOMAIN products
                            THEN [products EXCEPT ![item.product_id].stock = Decremented(l.cur, item)]
                          ELSE products
           /\ loc' = [loc EXCEPT ![p].i = IF l.i < Len(l.items) THEN l.i + 1 ELSE 1]
           /\ pc'  = [pc EXCEPT ![p] = IF l.i < Len(l.items) THEN "decread" ELSE "clear"]
    /\ aresp' = "none"
    /\ UNCHANGED <<cart, orders, pre, nreq, nadmin, users, authusers, gate>>

\* lines 98-107: delete the caller's cart lines, answer 201
PlaceClearCart(p) ==
    /\ pc[p] = "clear"
    /\ cart' = ClearedCart(cart, loc[p].actor, loc[p].items)
    /\ Finish(p, loc[p], "201")
    /\ aresp' = "none"
    /\ UNCHANGED <<products, orders, pre, nreq, nadmin, users, authusers, gate>>

\* ------------------------------------------ POST /api/orders/:id/cancel
\* lines 354-376: select the order, check permission and status
CancelOrder(p, u, id, reason) ==
    /\ Idle(p)
    /\ nreq < RequestBudget
    /\ \A q \in DOMAIN products : products[q].stock <= StockCap
    /\ nreq' = nreq + 1
    /\ pre' = [pre EXCEPT ![p] = Tables]
    /\ LET follows == /\ pc[p] = "idle" /\ aresp = "none"
                      /\ loc[p].kind = "place" /\ loc[p].resp = "201" /\ loc[p].id = id
           l == [NoLoc EXCEPT !.kind = "cancel", !.actor = u, !.id = id, !.reason = reason,
                              !.i = 1, !.base = IF follows THEN pre[p].products ELSE <<>>]
       IN  IF id \notin DOMAIN orders
             THEN Finish(p, l, "404")
           ELSE LET order == orders[id]
                    l2    == [l EXCEPT !.order = order]
                IN  IF ~Permitted(u, order)
                      THEN Finish(p, l2, "403")
                    ELSE IF CancelRefused(order)
                      THEN Finish(p, l2, "400 Cannot cancel shipped or delivered orders")
                    ELSE /\ pc'  = [pc EXCEPT ![p] = "cupdate"]
                         /\ loc' = [loc EXCEPT ![p] = l2]
    /\ aresp' = "none"
    /\ UNCHANGED <<products, cart, orders, nadmin, users, authusers, gate>>

\* lines 378-391: update status and reason; the update may report an error
CancelUpdate(p) ==
    /\ pc[p] = "cupdate"
    /\ \E error \in BOOLEAN :
         IF error
           THEN /\ Finish(p, loc[p], "500")
                /\ UNCHANGED orders
         ELSE /\ orders' = [orders EXCEPT ![loc[p].id] = CancelledRow(@, loc[p].reason)]
              /\ pc' = [pc EXCEPT ![p] = "rread"]
              /\ UNCHANGED loc
    /\ aresp' = "none"
    /\ UNCHANGED <<products, cart, pre, nreq, nadmin, users, authusers, gate>>

\* lines 394-401: select the current stock of the product of snapshot line i
CancelStockRead(p) ==
    /\ pc[p] = "rread"
    /\ LET l    == loc[p]
           item == l.order.items[l.i]
           last == l.i >= Len(l.order.items)
       IN  IF item.product_id \in DOMAIN products
             THEN /\ loc' = [loc EXCEPT ![p].cur = products[item.product_id].stock]
                  /\ pc'  = [pc EXCEPT ![p] = "rwrite"]
           ELSE IF last
             THEN Finish(p, l, "200")
           ELSE /\ loc' = [loc EXCEPT ![p].i = l.i + 1]
                /\ UNCHANGED pc
    /\ aresp' = "none"
    /\ UNCHANGED <<products, cart, orders, pre, nreq, nadmin, users, authusers, gate>>

\* lines 402-414: write back stock + quantity; after the last line answer 200
CancelStockWrite(p) ==
    /\ pc[p] = "rwrite"
    /\ LET l    == loc[p]
           item == l.order.items[l.i]
           last == l.i >= Len(l.order.items)
       IN  /\ products' = IF item.product_id \in DOMAIN products
                            THEN [products EXCEPT ![item.product_id].stock = Restored(l.cur, item)]
                          ELSE products
           /\ IF last THEN Finish(p, l, "200")
              ELSE /\ loc' = [loc EXCEPT ![p].i = l.i + 1]
                   /\ pc'  = [pc EXCEPT ![p] = "rread"]
    /\ aresp' = "none"
    /\ UNCHANGED <<cart, orders, pre, nreq, nadmin, users, authusers, gate>>

\* ------------------------------------------------------------ /api/cart
\* a cart line's id: the model names the line of user u for product q <<u, q>>;
\* a line inserted after a delete is a new row with a new id, see held
LineIds == {<<u, q>> : u \in Buyers, q \in Products}
CartProductInputs  == ProductIds \cup {Absent}
CartQuantityInputs == 0..MaxQty

\* the line id a handler suspended before its update has read
HeldLine(q) ==
    IF pc[q] = "aupdate" THEN <<loc[q].actor, loc[q].product_id>>
    ELSE IF pc[q] = "uwrite" THEN loc[q].line
    ELSE <<>>

\* the rows with ids in gone are deleted: the ids handlers hold of them dangle
Dangling(l, gone) ==
    [q \in Procs |-> IF HeldLine(q) \in gone THEN [l[q] EXCEPT !.held = FALSE] ELSE l[q]]

\* a stock check that lets one unit too many through
NotEnoughStockOffByOne(quantity, stock) == quantity > stock + 1

\* cart.ts 120, 191: the new quantity of a line exceeds the stock selected
NotEnoughStock(quantity, stock) == quantity > stock

\* a lookup of the line by id alone
FindLineAnyOwner(u, line) == cart[line[1]][line[2]] > 0 /\ line[2] \in DOMAIN products

\* cart.ts 179-184: select the line by id and user_id, joined with its product
FindLine(u, line) ==
    /\ line[1] = u
    /\ cart[line[1]][line[2]] > 0
    /\ line[2] \in DOMAIN products

\* cart.ts 81-106: POST /api/cart up to the stock check of the request
AddToCart(p, u, product_id, quantity) ==
    /\ Idle(p)
    /\ nreq < MaxCartRequests
    /\ nreq' = nreq + 1
    /\ pre' = [pre EXCEPT ![p] = Tables]
    /\ LET l == [NoLoc EXCEPT !.kind = "add", !.actor = u, !.product_id = product_id,
                              !.quantity = quantity]
       IN  IF product_id = Absent
             THEN Finish(p, l, "400 Product ID is required")
           ELSE IF quantity <= 0
             THEN Finish(p, l, "400 Quantity must be greater than 0")
           ELSE IF product_id \notin DOMAIN products \/ ~products[product_id].approved_by_ai
             THEN Finish(p, l, "404 Product not found")
           ELSE IF products[product_id].stock < quantity
             THEN Finish(p, l, "400 Insufficient stock")
           ELSE /\ pc'  = [pc EXCEPT ![p] = "aexisting"]
                /\ loc' = [loc EXCEPT ![p] = [l EXCEPT !.stock = products[product_id].stock]]
    /\ aresp' = "none"
    /\ UNCHANGED <<products, cart, orders, nadmin, users, authusers, gate>>

\* cart.ts 108-122: select the caller's line of the product, check the sum
AddExisting(p) ==
    /\ pc[p] = "aexisting"
    /\ LET l == loc[p]
           existingItem == cart[l.actor][l.product_id]
       IN  IF existingItem > 0
             THEN IF NotEnoughStock(existingItem + l.quantity, l.stock)
                    THEN Finish(p, l, "400 Not enough stock available")
                  ELSE /\ pc'  = [pc EXCEPT ![p] = "aupdate"]
                       /\ loc' = [loc EXCEPT ![p].existing = existingItem, ![p].held = TRUE]
           ELSE /\ pc'  = [pc EXCEPT ![p] = "ainsert"]
                /\ UNCHANGED loc
    /\ aresp' = "none"
    /\ UNCHANGED <<products, cart, orders, pre, nreq, nadmin, users, authusers, gate>>

\* cart.ts 124-138: update the line by its id; no row: .single() reports an error
AddUpdate(p) ==
    /\ pc[p] = "aupdate"
    /\ LET l == loc[p]
       IN  IF ~l.held
             THEN Finish(p, l, "500") /\ UNCHANGED cart
           ELSE /\ cart' = [cart EXCEPT ![l.actor][l.product_id] = l.existing + l.quantity]
                /\ Finish(p, l, "200")
    /\ aresp' = "none"
    /\ UNCHANGED <<products, orders, pre, nreq, nadmin, users, authusers, gate>>

\* cart.ts 139-161: insert the line; UNIQUE(user_id, product_id) refuses a
\* second row of the pair
AddInsert(p) ==
    /\ pc[p] = "ainsert"
    /\ LET l == loc[p]
       IN  IF cart[l.actor][l.product_id] > 0 \/ l.product_id \notin DOMAIN products
             THEN Finish(p, l, "500") /\ UNCHANGED cart
           ELSE /\ cart' = [cart EXCEPT ![l.actor][l.product_id] = l.quantity]
                /\ Finish(p, l, "201")
    /\ aresp' = "none"
    /\ UNCHANGED <<products, orders, pre, nreq, nadmin, users, authusers, gate>>

\* cart.ts 171-193: PUT /api/cart/:id up to the stock check
UpdateCartItem(p, u, line, quantity) ==
    /\ Idle(p)
    /\ nreq < MaxCartRequests
    /\ nreq' = nreq + 1
    /\ pre' = [pre EXCEPT ![p] = Tables]
    /\ LET l == [NoLoc EXCEPT !.kind = "update", !.actor = u, !.line = line,
                              !.quantity = quantity]
       IN  IF quantity <= 0
             THEN Finish(p, l, "400 Valid quantity is required")
           ELSE IF ~FindLine(u, line)
             THEN Finish(p, l, "404 Cart item not found")
           ELSE IF NotEnoughStock(quantity, products[line[2]].stock)
             THEN Finish(p, l, "400 Not enough stock available")
           ELSE /\ pc'  = [pc EXCEPT ![p] = "uwrite"]
                /\ loc' = [loc EXCEPT ![p] = [l EXCEPT !.stock = products[line[2]].stock,
                                                       !.held = TRUE]]
    /\ aresp' = "none"
    /\ UNCHANGED <<products, cart, orders, nadmin, users, authusers, gate>>

\* cart.ts 195-210: update the line by its id
UpdateWrite(p) ==
    /\ pc[p] = "uwrite"
    /\ LET l == loc[p]
       IN  IF ~l.held
             THEN Finish(p, l, "500") /\ UNCHANGED cart
           ELSE /\ cart' = [cart EXCEPT ![l.line[1]][l.line[2]] = l.quantity]
                /\ Finish(p, l, "200")
    /\ aresp' = "none"
    /\ UNCHANGED <<products, orders, pre, nreq, nadmin, users, authusers, gate>>

\* cart.ts 218-237: DELETE /api/cart/:id, one delete filtered by id and user_id
RemoveCartItem(p, u, line) ==
    /\ Idle(p)
    /\ nreq < MaxCartRequests
    /\ nreq' = nreq + 1
    /\ pre' = [pre EXCEPT ![p] = Tables]
    /\ LET l    == [NoLoc EXCEPT !.kind = "remove", !.actor = u, !.line = line, !.resp = "200"]
           gone == IF line[1] = u /\ cart[line[1]][line[2]] > 0 THEN {line} ELSE {}
       IN  /\ cart' = [c \in Users |-> [q \in Products |->
                          IF <<c, q>> \in gone THEN 0 ELSE cart[c][q]]]
           /\ loc' = [Dangling(loc, gone) EXCEPT ![p] = l]
    /\ UNCHANGED pc
    /\ aresp' = "none"
    /\ UNCHANGED <<products, orders, nadmin, users, authusers, gate>>

\* cart.ts 240-256: DELETE /api/cart, one delete filtered by user_id
ClearCart(p, u) ==
    /\ Idle(p)
    /\ nreq < MaxCartRequests
    /\ nreq' = nreq + 1
    /\ pre' = [pre EXCEPT ![p] = Tables]
    /\ LET l    == [NoLoc EXCEPT !.kind = "clearcart", !.actor = u, !.resp = "200"]
           gone == {<<u, q>> : q \in {r \in Products : cart[u][r] > 0}}
       IN  /\ cart' = [cart EXCEPT ![u] = [q \in Products |-> 0]]
           /\ loc' = [Dangling(loc, gone) EXCEPT ![p] = l]
    /\ UNCHANGED pc
    /\ aresp' = "none"
    /\ UNCHANGED <<products, orders, nadmin, users, authusers, gate>>

\* cart.ts 8-77: GET /api/cart, one select filtered by user_id
GetCart(p, u) ==
    /\ Idle(p)
    /\ nreq < MaxCartRequests
    /\ nreq' = nreq + 1
    /\ pre' = [pre EXCEPT ![p] = Tables]
    /\ loc' = [loc EXCEPT ![p] =
                  [NoLoc EXCEPT !.kind = "get", !.actor = u, !.resp = "200",
                                !.lines = {<<u, q>> : q \in {r \in Products : cart[u][r] > 0}}]]
    /\ UNCHANGED pc
    /\ aresp' = "none"
    /\ UNCHANGED <<products, cart, orders, nadmin, users, authusers, gate>>

\* ------------------------------------------------------- admin requests
\* only admin requests are made (no handler of an order or cart request)
AdminOnly   == \A q \in Procs : pc[q] = "off"
AdminBudget == IF AdminOnly THEN MaxAdminSeq ELSE MaxAdminOps

\* a gate that lets every authenticated user through
requireAdminAnyUser(user) == TRUE

\* auth.ts 56-65: requireAdmin lets the request through
requireAdmin(user) == ~(user = NoUser \/ user.role # "admin")

\* a check that accepts every value
ValidStatusAny(status, valid) == TRUE

\* lines 227, 264: validStatuses.includes(value)
ValidStatus(status, valid) == status \in valid

\* a status update that also zeroes the stored total
StatusUpdatedZeroTotal(order, status, tracking_number) ==
    [order EXCEPT !.status = status, !.total_price = 0]

\* lines 231-238: the row written by a status update
StatusUpdated(order, status, tracking_number) ==
    [order EXCEPT !.status = status,
                  !.tracking_number = IF tracking_number # Absent THEN tracking_number ELSE @]

\* line 270: the row written by a payment status update
PaymentStatusUpdated(order, payment_status) == [order EXCEPT !.payment_status = payment_status]

\* requireAdmin, then the handler of PATCH /api/orders/:id/status
SetStatus(u, id, status, tracking_number) ==
    /\ nadmin < AdminBudget
    /\ Sequential => Quiet
    /\ nadmin' = nadmin + 1
    /\ IF ~requireAdmin(ReqUser(u))
         THEN aresp' = "403" /\ UNCHANGED orders
       ELSE IF ~ValidStatus(status, validStatuses)
         THEN aresp' = "400 Invalid status" /\ UNCHANGED orders
       ELSE IF id \notin DOMAIN orders
         THEN aresp' = "500" /\ UNCHANGED orders
       ELSE /\ orders' = [orders EXCEPT ![id] = StatusUpdated(@, status, tracking_number)]
            /\ aresp' = "200"
    /\ UNCHANGED <<products, cart, pc, loc, pre, nreq, users, authusers, gate>>

\* requireAdmin, then the handler of PATCH /api/orders/:id/payment-status
SetPaymentStatus(u, id, payment_status) ==
    /\ nadmin < AdminBudget
    /\ Sequential => Quiet
    /\ nadmin' = nadmin + 1
    /\ IF ~requireAdmin(ReqUser(u))
         THEN aresp' = "403" /\ UNCHANGED orders
       ELSE IF ~ValidStatus(payment_status, validPaymentStatuses)
         THEN aresp' = "400 Invalid payment status" /\ UNCHANGED orders
       ELSE IF id \notin DOMAIN orders
         THEN aresp' = "500" /\ UNCHANGED orders
       ELSE /\ orders' = [orders EXCEPT ![id] = PaymentStatusUpdated(@, payment_status)]
            /\ aresp' = "200"
    /\ UNCHANGED <<products, cart, pc, loc, pre, nreq, users, authusers, gate>>

\* requireAdmin, then the handler of GET /api/orders/admin/all (reads only)
ListAllOrders(u) ==
    /\ nadmin < AdminBudget
    /\ Sequential => Quiet
    /\ nadmin' = nadmin + 1
    /\ aresp' = IF ~requireAdmin(ReqUser(u)) THEN "403" ELSE "200"
    /\ UNCHANGED <<products, cart, orders, pc, loc, pre, nreq, users, authusers, gate>>

ProductUpdates == [price : Prices] \cup [stock : 0..MaxStock]
PriceUpdates   == [original_price : OriginalPrices]
                      \cup [price : Prices, original_price : OriginalPrices]
NewProducts    == [price : {0} \cup Prices, original_price : {0, 15}, stock : {0, MaxStock}]

\* products-new.ts 172-177: the body of a PUT with the discount the handler
\* adds when the body has a price and an original price
WithDiscount(updates) ==
    IF /\ {"price", "original_price"} \subseteq DOMAIN updates
       /\ updates.price # 0 /\ updates.original_price # 0
      THEN [f \in DOMAIN updates \cup {"discount_percentage"} |->
               IF f = "discount_percentage"
                 THEN MathRound((updates.original_price - updates.price) * 100,
                                updates.original_price)
                 ELSE updates[f]]
      ELSE updates

\* requireAdmin, then the handler of POST /api/products; the new row gets an
\* id no row has
CreateProduct(u, id, new) ==
    /\ nadmin < AdminBudget
    /\ Sequential => Quiet
    /\ id \notin DOMAIN products
    /\ nadmin' = nadmin + 1
    /\ IF ~requireAdmin(ReqUser(u))
         THEN aresp' = "403" /\ UNCHANGED products
       ELSE IF new.price = 0 \/ new.stock = 0
         THEN aresp' = "400 Title, price, and stock are required" /\ UNCHANGED products
       ELSE /\ products' = [q \in DOMAIN products \cup {id} |->
                               IF q = id THEN ProductRow(new.price, new.original_price, new.stock)
                               ELSE products[q]]
            /\ aresp' = "201"
    /\ UNCHANGED <<cart, orders, pc, loc, pre, nreq, users, authusers, gate>>

\* requireAdmin, then the handler of PUT /api/products/:id
UpdateProduct(u, id, updates) ==
    /\ nadmin < AdminBudget
    /\ Sequential => Quiet
    /\ nadmin' = nadmin + 1
    /\ IF ~requireAdmin(ReqUser(u))
         THEN aresp' = "403" /\ UNCHANGED products
       ELSE IF id \notin DOMAIN products
         THEN aresp' = "500" /\ UNCHANGED products
       ELSE /\ products' = [products EXCEPT ![id] =
                               [f \in DOMAIN @ |-> IF f \in DOMAIN WithDiscount(updates)
                                                      THEN WithDiscount(updates)[f] ELSE @[f]]]
            /\ aresp' = "200"
    /\ UNCHANGED <<cart, orders, pc, loc, pre, nreq, users, authusers, gate>>

\* requireAdmin, then the handler of DELETE /api/products/:id; cart_items
\* rows of the product go with it (ON DELETE CASCADE)
DeleteProduct(u, id) ==
    /\ nadmin < AdminBudget
    /\ Sequential => Quiet
    /\ nadmin' = nadmin + 1
    /\ IF ~requireAdmin(ReqUser(u))
         THEN aresp' = "403" /\ UNCHANGED <<products, cart>>
       ELSE /\ products' = [q \in DOMAIN products \ {id} |-> products[q]]
            /\ cart' = [c \in Users |-> [q \in Products |-> IF q = id THEN 0 ELSE cart[c][q]]]
            /\ aresp' = "200"
    /\ UNCHANGED <<orders, pc, loc, pre, nreq, users, authusers, gate>>

\* requireAdmin, then the handler of POST /api/products/:id/approve (approved:
\* TRUE) and of POST /api/products/:id/reject (approved: FALSE)
SetApproved(u, id, approved) ==
    /\ nadmin < AdminBudget
    /\ Sequential => Quiet
    /\ nadmin' = nadmin + 1
    /\ IF ~requireAdmin(ReqUser(u))
         THEN aresp' = "403" /\ UNCHANGED products
       ELSE IF id \notin DOMAIN products
         THEN aresp' = "500" /\ UNCHANGED products
       ELSE /\ products' = [products EXCEPT ![id].approved_by_ai = approved]
            /\ aresp' = "200"
    /\ UNCHANGED <<cart, orders, pc, loc, pre, nreq, users, authusers, gate>>

\* ------------------------------------------------- the auth middleware
\* the middleware a route is registered with, in order
Routes == {"orders", "admin", "products"}
Chain(route) ==
    CASE route = "orders"     -> <<"authenticateToken", "handler">>
      [] route = "admin"      -> <<"authenticateToken", "requireAdmin", "handler">>
      [] route = "products"   -> <<"optionalAuth", "handler">>
      [] route = "product"    -> <<"optionalAuth", "handler">>
      [] route = "categories" -> <<"handler">>
      [] route = "track"      -> <<"handler">>
      [] OTHER                -> <<>>

\* the segments of a route pattern that are parameters
Params == {":id", ":tracking_number"}

\* the GET routes of the products router, in the order of their registration
ProductsRouter ==
    << [route |-> "products",   pattern |-> <<>>],
       [route |-> "product",    pattern |-> <<":id">>],
       [route |-> "admin",      pattern |-> <<"admin", "all">>],
       [route |-> "categories", pattern |-> <<"categories">>] >>

\* the GET routes of the orders router, in the order of their registration
OrdersRouter ==
    << [route |-> "orders", pattern |-> <<>>],
       [route |-> "orders", pattern |-> <<":id">>],
       [route |-> "admin",  pattern |-> <<"admin", "all">>],
       [route |-> "track",  pattern |-> <<"track", ":tracking_number">>] >>

\* a pattern matches a path of its length whose segments are those of the
\* pattern, a parameter matches every segment
Matches(pattern, path) ==
    /\ Len(pattern) = Len(path)
    /\ \A i \in 1..Len(path) : pattern[i] \in Params \/ pattern[i] = path[i]

\* the router hands the request to the first registered route that matches,
\* and that route answers
Dispatch(router, path) ==
    LET hits == {i \in 1..Len(router) : Matches(router[i].pattern, path)}
    IN  IF hits = {} THEN "none"
        ELSE router[CHOOSE i \in hits : \A j \in hits : i <= j].route

\* the paths of the requests to the products router
ProductPaths == {<<>>, <<"X">>, <<"Y">>, <<"Z">>, <<"categories">>, <<"admin", "all">>}
\* the paths of the requests to the orders router that track an order
TrackPaths   == {<<"track", "TN1">>, <<"track", "TN9">>}

\* the rows of the categories table
Categories == {[name |-> "Electronics", sort_order |-> 1], [name |-> "Fashion", sort_order |-> 2],
               [name |-> "Home & Garden", sort_order |-> 3]}

\* .order('sort_order', { ascending: true })
RECURSIVE OrderBySortOrder(_)
OrderBySortOrder(rows) ==
    IF rows = {} THEN <<>>
    ELSE LET first == CHOOSE r \in rows : \A t \in rows : r.sort_order <= t.sort_order
         IN  <<first>> \o OrderBySortOrder(rows \ {first})

\* the product reads show every row to an admin
VisibleToAdmin(user, row) == row.approved_by_ai \/ user.role = "admin"

\* the product reads without the filter
VisibleAll(user, row) == TRUE

\* products-new.ts 25, 97: .eq('approved_by_ai', true), whoever req.user is
Visible(user, row) == row.approved_by_ai

\* products-new.ts 8-75: GET /api/products with the default query
ListProducts(user) ==
    [status |-> "200",
     body   |-> [products |-> {<<id, products[id]>> :
                                  id \in {q \in DOMAIN products : Visible(user, products[q])}}]]

\* products-new.ts 78-109: GET /api/products/:id; .single() reports an error
\* when no row matches
GetProduct(user, id) ==
    IF id \in DOMAIN products /\ Visible(user, products[id])
      THEN [status |-> "200", body |-> [product |-> <<id, products[id]>>]]
      ELSE [status |-> "404", body |-> [error |-> "Product not found"]]

\* products-new.ts 284-300: GET /api/products/categories
GetCategories ==
    [status |-> "200", body |-> [categories |-> OrderBySortOrder(Categories)]]

\* part_003 308-312: an entry of the history; its date is created_at of the
\* order plus days
Milestone(status, days) == [status |-> status, days |-> days]

\* the history without the Processing milestone of a shipped order
TrackingHistoryNoProcessing(status) ==
    <<Milestone("Order Placed", 0)>>
        \o (IF status = "processing" THEN <<Milestone("Processing", 1)>> ELSE <<>>)
        \o (IF status \in {"shipped", "delivered"} THEN <<Milestone("Shipped", 2)>> ELSE <<>>)
        \o (IF status = "delivered" THEN <<Milestone("Delivered", 7)>> ELSE <<>>)

\* part_003 304-337: the milestones pushed for a status
TrackingHistory(status) ==
    <<Milestone("Order Placed", 0)>>
        \o (IF status \in {"processing", "shipped", "delivered"}
              THEN <<Milestone("Processing", 1)>> ELSE <<>>)
        \o (IF status \in {"shipped", "delivered"} THEN <<Milestone("Shipped", 2)>> ELSE <<>>)
        \o (IF status = "delivered" THEN <<Milestone("Delivered", 7)>> ELSE <<>>)

\* part_003 290-349: GET /api/orders/track/:tracking_number; .single()
\* reports an error unless exactly one row has the tracking number
TrackOrder(tracking_number) ==
    LET hits == {i \in 1..Len(orders) : orders[i].tracking_number = tracking_number}
    IN  IF Cardinality(hits) # 1
          THEN [status |-> "404", body |-> [error |-> "Order not found"]]
          ELSE LET id == CHOOSE i \in hits : TRUE
               IN  [status |-> "200",
                    body   |-> [order_id |-> id,
                                tracking_number |-> orders[id].tracking_number,
                                current_status |-> orders[id].status,
                                tracking_history |-> TrackingHistory(orders[id].status)]]

\* what the handler of the route answers
Answer ==
    CASE gate.route = "products"   -> ListProducts(gate.user)
      [] gate.route = "product"    -> GetProduct(gate.user, gate.path[1])
      [] gate.route = "categories" -> GetCategories
      [] gate.route = "track"      -> TrackOrder(gate.path[2])
      [] OTHER                     -> [status |-> "200", body |-> NoBody]

Stage == IF gate.at \in 1..Len(Chain(gate.route)) THEN Chain(gate.route)[gate.at] ELSE "none"

\* res.status(...).json(...): the chain ends here
Respond(status) == gate' = [gate EXCEPT !.status = status, !.at = 0]
\* next(): the following middleware or the handler runs, with req.user
Proceed(user) == gate' = [gate EXCEPT !.user = user, !.at = @ + 1]

\* auth.ts 21-23: the answer to a request without token
NoTokenStatus == "401"

\* auth.ts 27: supabase.auth.getUser(token) resolves the token to an account
GetUser(token) == IF token \in authusers THEN token ELSE "null"

\* a client sends a request to a route
Request(route, token) ==
    /\ gate.at = 0
    /\ gate' = [NoGate EXCEPT !.route = route, !.token = token, !.at = 1]
    /\ UNCHANGED <<products, cart, orders, pc, loc, pre, aresp, nreq, nadmin, users, authusers>>

\* auth.ts 13-54: authenticateToken; the select of the role with .single()
\* reports an error when the users table has no row of the account
AuthenticateToken ==
    /\ Stage = "authenticateToken"
    /\ IF gate.token = "none"
         THEN Respond(NoTokenStatus)
       ELSE IF GetUser(gate.token) = "null"
         THEN Respond("403")
       ELSE IF GetUser(gate.token) \notin DOMAIN users
         THEN Respond("500")
       ELSE Proceed([id |-> GetUser(gate.token), email |-> GetUser(gate.token),
                     role |-> users[GetUser(gate.token)]])
    /\ UNCHANGED <<products, cart, orders, pc, loc, pre, aresp, nreq, nadmin, users, authusers>>

\* auth.ts 67-100: optionalAuth; the error of the role select is ignored
OptionalAuth ==
    /\ Stage = "optionalAuth"
    /\ IF gate.token = "none" \/ GetUser(gate.token) = "null"
         THEN Proceed(NoUser)
       ELSE Proceed([id |-> GetUser(gate.token), email |-> GetUser(gate.token),
                     role |-> IF GetUser(gate.token) \in DOMAIN users
                                THEN users[GetUser(gate.token)] ELSE "user"])
    /\ UNCHANGED <<products, cart, orders, pc, loc, pre, aresp, nreq, nadmin, users, authusers>>

\* auth.ts 56-65: requireAdmin as a middleware of the chain
RequireAdmin ==
    /\ Stage = "requireAdmin"
    /\ IF ~requireAdmin(gate.user) THEN Respond("403") ELSE Proceed(gate.user)
    /\ UNCHANGED <<products, cart, orders, pc, loc, pre, aresp, nreq, nadmin, users, authusers>>

\* a client sends GET /api/products<path>
GetProducts(path, token) ==
    /\ gate.at = 0
    /\ gate' = [NoGate EXCEPT !.route = Dispatch(ProductsRouter, path), !.path = path,
                               !.token = token, !.at = 1]
    /\ UNCHANGED <<products, cart, orders, pc, loc, pre, aresp, nreq, nadmin, users, authusers>>

\* a client sends GET /api/orders<path>
GetOrders(path, token) ==
    /\ gate.at = 0
    /\ gate' = [NoGate EXCEPT !.route = Dispatch(OrdersRouter, path), !.path = path,
                               !.token = token, !.at = 1]
    /\ UNCHANGED <<products, cart, orders, pc, loc, pre, aresp, nreq, nadmin, users, authusers>>

\* the route handler runs and answers
Handler ==
    /\ Stage = "handler"
    /\ gate' = [gate EXCEPT !.status = Answer.status, !.body = Answer.body, !.at = 0]
    /\ UNCHANGED <<products, cart, orders, pc, loc, pre, aresp, nreq, nadmin, users, authusers>>

\* POST /register: sign up at the identity provider, then insert the profile
\* row; an error of the insert is logged and the answer is 201 all the same
Register(a, profileError) ==
    /\ gate.at = 0
    /\ a \notin authusers
    /\ authusers' = authusers \cup {a}
    /\ users' = IF profileError THEN users
                ELSE [u \in DOMAIN users \cup {a} |-> IF u = a THEN "user" ELSE users[u]]
    /\ gate' = NoGate
    /\ UNCHANGED <<products, cart, orders, pc, loc, pre, aresp, nreq, nadmin>>

\* ------------------------------------------------- POST /auth/admin-login
\* ai.ts 420-421: the fixed credentials
ADMIN_EMAIL    == "proudchannel2024@gmail.com"
ADMIN_PASSWORD == "lolinr123"
LoginInputs == {ADMIN_EMAIL, "u1"} \X {ADMIN_PASSWORD, "guess"}

\* the users table with the row of the admin account written
WithAdminRow == [u \in DOMAIN users \cup {ADMIN_EMAIL} |->
                    IF u = ADMIN_EMAIL THEN "admin" ELSE users[u]]

\* ai.ts 415-431: the credentials are compared with the fixed ones, then the
\* handler awaits signInWithPassword (at = 1)
AdminLogin(email, password) ==
    /\ gate.at = 0
    /\ nreq < MaxLogins
    /\ nreq' = nreq + 1
    /\ gate' = IF email # ADMIN_EMAIL \/ password # ADMIN_PASSWORD
                 THEN [NoGate EXCEPT !.route = "admin-login", !.input = <<email, password>>,
                                     !.status = "401"]
               ELSE [NoGate EXCEPT !.route = "admin-login", !.input = <<email, password>>,
                                   !.at = 1]
    /\ UNCHANGED <<products, cart, orders, pc, loc, pre, aresp, nadmin, users, authusers>>

\* ai.ts 428-433: signInWithPassword resolves with the user, resolves with an
\* error, or rejects (catch: 500); without an account it cannot give a user
SignIn ==
    /\ gate.route = "admin-login" /\ gate.at = 1
    /\ \E outcome \in {"user", "error", "throws"} :
         /\ outcome = "user" => ADMIN_EMAIL \in authusers
         /\ CASE outcome = "user"   -> gate' = [gate EXCEPT !.at = 4]
              [] outcome = "error"  -> gate' = [gate EXCEPT !.at = 2]
              [] outcome = "throws" -> Respond("500")
    /\ UNCHANGED <<products, cart, orders, pc, loc, pre, aresp, nreq, nadmin, users, authusers>>

\* ai.ts 435-473: signUp resolves with an error (500), with a user (the
\* profile insert follows, at = 3) or without one: then data?.user of the
\* failed sign-in is empty too and the handler returns without a response
SignUp ==
    /\ gate.route = "admin-login" /\ gate.at = 2
    /\ \E outcome \in {"error", "user", "no user"} :
         CASE outcome = "error"   -> Respond("500") /\ UNCHANGED authusers
           [] outcome = "user"    -> /\ gate' = [gate EXCEPT !.at = 3]
                                     /\ authusers' = authusers \cup {ADMIN_EMAIL}
           [] outcome = "no user" -> /\ gate' = [gate EXCEPT !.at = 0]
                                     /\ UNCHANGED authusers
    /\ UNCHANGED <<products, cart, orders, pc, loc, pre, aresp, nreq, nadmin, users>>

\* ai.ts 450-471: insert the admin profile (a row that exists stays as it
\* is, the error is not looked at), answer 200
InsertProfile ==
    /\ gate.route = "admin-login" /\ gate.at = 3
    /\ users' = IF ADMIN_EMAIL \in DOMAIN users THEN users ELSE WithAdminRow
    /\ Respond("200")
    /\ UNCHANGED <<products, cart, orders, pc, loc, pre, aresp, nreq, nadmin, authusers>>

\* ai.ts 476-498: upsert the profile of the signed-in user with role admin,
\* answer 200
UpsertProfile ==
    /\ gate.route = "admin-login" /\ gate.at = 4
    /\ users' = WithAdminRow
    /\ Respond("200")
    /\ UNCHANGED <<products, cart, orders, pc, loc, pre, aresp, nreq, nadmin, authusers>>

\* ------------------------------------------------------------------- Next
\* the order requests of customers
OrderNext ==
    \/ \E p \in Procs, u \in Buyers, n \in 0..MaxItems, sh \in ShippingInputs :
           PlaceOrder(p, u, n, sh)
    \/ \E p \in Procs, item \in ItemInputs : PlaceCheck(p, item)
    \/ \E p \in Procs : PlaceInsert(p)
    \/ \E p \in Procs : PlaceStockRead(p)
    \/ \E p \in Procs : PlaceStockWrite(p)
    \/ \E p \in Procs : PlaceClearCart(p)
    \/ \E p \in Procs, u \in Users, id \in 1..MaxConcOrders, reason \in Reasons :
           CancelOrder(p, u, id, reason)
    \/ \E p \in Procs : CancelUpdate(p)
    \/ \E p \in Procs : CancelStockRead(p)
    \/ \E p \in Procs : CancelStockWrite(p)

Next ==
    \/ OrderNext
    \/ \E u \in Users, id \in 1..MaxConcOrders, st \in StatusInputs : SetStatus(u, id, st, Absent)
    \/ \E u \in Users, id \in 1..MaxConcOrders, ps \in PaymentStatusInputs :
           SetPaymentStatus(u, id, ps)
    \/ \E u \in Users, id \in Products, up \in ProductUpdates : UpdateProduct(u, id, up)
    \/ \E u \in Users, id \in Products : DeleteProduct(u, id)

\* admin requests on a store that holds two orders: u1 bought one X, u2
\* bought one X and one Y, u1 has put one Y into the cart since
InitAdmin ==
    /\ products = [p \in Products |->
                      IF p = "X" THEN ProductRow(10, 20, 1) ELSE ProductRow(5, 0, 2)]
    /\ cart = [u \in Users |-> [p \in Products |-> IF u = "u1" /\ p = "Y" THEN 1 ELSE 0]]
    /\ LET X == [price |-> 10, stock |-> MaxStock]
           Y == [price |-> 5, stock |-> MaxStock]
       IN  orders = << OrderRow("u1", <<OrderItem("X", X, Item("X", 1, 1))>>, 10),
                       OrderRow("u2", <<OrderItem("X", X, Item("X", 1, 1)),
                                        OrderItem("Y", Y, Item("Y", 1, 1))>>, 15) >>
    /\ pc = [p \in Procs |-> "off"]
    /\ loc = [p \in Procs |-> NoLoc]
    /\ pre = [p \in Procs |-> Tables]
    /\ aresp = "none"
    /\ nreq = 0
    /\ nadmin = 0
    /\ users = [u \in Users |-> role(u)]
    /\ authusers = Users
    /\ gate = NoGate

AdminNext ==
    \/ \E u \in Users, id \in 1..MaxConcOrders + 1, st \in StatusInputs, tn \in TrackingInputs :
           SetStatus(u, id, st, tn)
    \/ \E u \in Users, id \in 1..MaxConcOrders + 1, ps \in PaymentStatusInputs :
           SetPaymentStatus(u, id, ps)
    \/ \E u \in Users : ListAllOrders(u)
    \/ \E u \in Users, id \in Products, new \in NewProducts : CreateProduct(u, id, new)
    \/ \E u \in Users, id \in Products, up \in ProductUpdates : UpdateProduct(u, id, up)
    \/ \E u \in Users, id \in Products : DeleteProduct(u, id)
    \/ \E u \in Users, id \in Products, approved \in BOOLEAN : SetApproved(u, id, approved)

\* the admin edits the catalog: creations, updates of the prices and of the
\* stock, deletions
PriceNext ==
    \/ \E id \in Products, new \in NewProducts : CreateProduct("adm", id, new)
    \/ \E id \in Products, up \in ProductUpdates \cup PriceUpdates :
           UpdateProduct("adm", id, up)
    \/ \E id \in Products : DeleteProduct("adm", id)

\* a catalog with a product X that is approved or not, and a product Y that
\* is approved, not approved, or not there
InitCatalog ==
    /\ \E ax \in BOOLEAN, ys \in {"approved", "unapproved", "absent"} :
           products = [q \in (IF ys = "absent" THEN {"X"} ELSE Products) |->
                          IF q = "X" THEN [ProductRow(10, 20, MaxStock) EXCEPT !.approved_by_ai = ax]
                          ELSE [ProductRow(5, 0, MaxStock) EXCEPT !.approved_by_ai = (ys = "approved")]]
    /\ cart = [u \in Users |-> [q \in Products |-> 0]]
    /\ orders = <<>>
    /\ pc = [p \in Procs |-> IF p = "r1" THEN "idle" ELSE "off"]
    /\ loc = [p \in Procs |-> NoLoc]
    /\ pre = [p \in Procs |-> Tables]
    /\ aresp = "none"
    /\ nreq = 0
    /\ nadmin = 0
    /\ users = [u \in Users |-> role(u)]
    /\ authusers = Users
    /\ gate = NoGate

\* the admin creates, approves and rejects products; anybody reads the
\* catalog, a customer adds to the cart
CatalogNext ==
    \/ \E id \in Products, new \in NewProducts : CreateProduct("adm", id, new)
    \/ \E id \in Products, approved \in BOOLEAN : SetApproved("adm", id, approved)
    \/ \E path \in ProductPaths, token \in {"none", "adm"} : GetProducts(path, token)
    \/ AuthenticateToken
    \/ RequireAdmin
    \/ OptionalAuth
    \/ Handler
    \/ \E p \in Procs, pid \in CartProductInputs, q \in CartQuantityInputs :
           AddToCart(p, "u1", pid, q)
    \/ \E p \in Procs : AddExisting(p)
    \/ \E p \in Procs : AddUpdate(p)
    \/ \E p \in Procs : AddInsert(p)

\* two handlers on a store where u1 has bought one X, and u2 too or not
InitRestore ==
    /\ \E n \in 1..MaxConcOrders :
           /\ products = [p \in Products |->
                             IF p = "X" THEN ProductRow(10, 20, MaxStock - n)
                             ELSE ProductRow(5, 0, MaxStock)]
           /\ orders = [i \in 1..n |->
                           OrderRow(IF i = 1 THEN "u1" ELSE "u2",
                                    <<OrderItem("X", ProductRow(10, 20, MaxStock), Item("X", 1, 1))>>,
                                    10)]
    /\ cart = [u \in Users |-> [p \in Products |-> 0]]
    /\ pc = [p \in Procs |-> "idle"]
    /\ loc = [p \in Procs |-> NoLoc]
    /\ pre = [p \in Procs |-> Tables]
    /\ aresp = "none"
    /\ nreq = 0
    /\ nadmin = 0
    /\ users = [u \in Users |-> role(u)]
    /\ authusers = Users
    /\ gate = NoGate

\* placements and cancellations of the two customers, interleaved
RestoreNext ==
    \/ \E p \in Procs, u \in Buyers, n \in 1..MaxItems : PlaceOrder(p, u, n, ShippingFields)
    \/ \E p \in Procs, item \in ItemInputs : PlaceCheck(p, item)
    \/ \E p \in Procs : PlaceInsert(p)
    \/ \E p \in Procs : PlaceStockRead(p)
    \/ \E p \in Procs : PlaceStockWrite(p)
    \/ \E p \in Procs : PlaceClearCart(p)
    \/ \E p \in Procs, u \in Buyers, id \in 1..MaxConcOrders : CancelOrder(p, u, id, "")
    \/ \E p \in Procs : CancelUpdate(p)
    \/ \E p \in Procs : CancelStockRead(p)
    \/ \E p \in Procs : CancelStockWrite(p)

\* placements and cancellations one at a time, and the admin's status
\* updates between them; nobody edits the products
LedgerNext ==
    \/ \E p \in Procs, u \in Buyers, n \in 1..MaxItems : PlaceOrder(p, u, n, ShippingFields)
    \/ \E p \in Procs, item \in ItemInputs : PlaceCheck(p, item)
    \/ \E p \in Procs : PlaceInsert(p)
    \/ \E p \in Procs : PlaceStockRead(p)
    \/ \E p \in Procs : PlaceStockWrite(p)
    \/ \E p \in Procs : PlaceClearCart(p)
    \/ \E p \in Procs, u \in Users, id \in 1..MaxConcOrders, reason \in Reasons :
           CancelOrder(p, u, id, reason)
    \/ \E p \in Procs : CancelUpdate(p)
    \/ \E p \in Procs : CancelStockRead(p)
    \/ \E p \in Procs : CancelStockWrite(p)
    \/ \E id \in 1..MaxConcOrders, st \in validStatuses : SetStatus("adm", id, st, Absent)

\* every product starts with MaxStock units
InitLedger == Init /\ \A q \in Products : products[q].stock = MaxStock

\* lines whose quantity is negative, zero or one
QuantityInputs == {Item(pid, q, cp) : pid \in Products, q \in -1..1, cp \in ClientPrices}

\* placements one at a time whose lines carry any quantity
QuantityNext ==
    \/ \E p \in Procs, u \in Buyers, n \in 1..MaxItems : PlaceOrder(p, u, n, ShippingFields)
    \/ \E p \in Procs, item \in QuantityInputs : PlaceCheck(p, item)
    \/ \E p \in Procs : PlaceInsert(p)
    \/ \E p \in Procs : PlaceStockRead(p)
    \/ \E p \in Procs : PlaceStockWrite(p)
    \/ \E p \in Procs : PlaceClearCart(p)

\* the steps of the admin-login handler after its awaits
LoginSteps == SignIn \/ SignUp \/ InsertProfile \/ UpsertProfile

\* admin logins and registrations
LoginNext ==
    \/ \E input \in LoginInputs : AdminLogin(input[1], input[2])
    \/ SignIn
    \/ SignUp
    \/ InsertProfile
    \/ UpsertProfile
    \/ \E a \in Accounts \cup {ADMIN_EMAIL}, profileError \in BOOLEAN : Register(a, profileError)

\* the admin moves orders through their statuses, anybody tracks them
TrackNext ==
    \/ \E id \in 1..MaxConcOrders, st \in validStatuses, tn \in TrackingInputs :
           SetStatus("adm", id, st, tn)
    \/ \E path \in TrackPaths, token \in {"none", "u1"} : GetOrders(path, token)
    \/ Handler

\* two cart requests whose database calls interleave, and a stock edit
CartNext ==
    \/ \E p \in Procs, u \in Buyers, pid \in CartProductInputs, q \in CartQuantityInputs :
           AddToCart(p, u, pid, q)
    \/ \E p \in Procs : AddExisting(p)
    \/ \E p \in Procs : AddUpdate(p)
    \/ \E p \in Procs : AddInsert(p)
    \/ \E p \in Procs, u \in Buyers, line \in LineIds, q \in CartQuantityInputs :
           UpdateCartItem(p, u, line, q)
    \/ \E p \in Procs : UpdateWrite(p)
    \/ \E p \in Procs, u \in Buyers, line \in LineIds : RemoveCartItem(p, u, line)
    \/ \E p \in Procs, u \in Buyers : ClearCart(p, u)
    \/ \E p \in Procs, u \in Buyers : GetCart(p, u)
    \/ \E id \in Products, up \in [stock : 0..MaxStock] : UpdateProduct("adm", id, up)

InitAuth == InitTables /\ pc = [p \in Procs |-> "off"]

AuthNext ==
    \/ \E route \in Routes, token \in Tokens : Request(route, token)
    \/ \E path \in ProductPaths, token \in Tokens : GetProducts(path, token)
    \/ \E id \in Products, approved \in BOOLEAN : SetApproved("adm", id, approved)
    \/ AuthenticateToken
    \/ OptionalAuth
    \/ RequireAdmin
    \/ Handler
    \/ \E a \in Accounts, profileError \in BOOLEAN : Register(a, profileError)

\* requests one at a time, admin requests between them
Spec     == Init /\ [][Next]_vars
\* admin requests only
SpecAdmin == InitAdmin /\ [][AdminNext]_vars
\* catalog reads and cart additions between approvals and rejections
SpecCatalog == InitCatalog /\ [][CatalogNext]_vars
\* a cancellation interleaved with a placement or a cancellation
SpecRestore == InitRestore /\ [][RestoreNext]_vars
\* order requests and status updates, no product edits
SpecLedger == InitLedger /\ [][LedgerNext]_vars
\* placements with lines of any quantity
SpecQuantity == Init /\ [][QuantityNext]_vars
\* admin logins; every call the handler awaits resolves or rejects
SpecLogin == InitAuth /\ [][LoginNext]_vars /\ WF_vars(LoginSteps)
\* catalog edits of the admin
SpecPrices == InitAdmin /\ [][PriceNext]_vars
\* status updates of the admin and order tracking
SpecTrack == InitAdmin /\ [][TrackNext]_vars
\* cart requests of two customers
SpecCart == InitConc /\ [][CartNext]_vars
\* requests through the auth middleware, and registrations
SpecAuth == InitAuth /\ [][AuthNext]_vars
\* two order requests whose database calls interleave
SpecConc == InitConc /\ [][OrderNext]_vars

\* ----------------------------------------------------------------- claims
\* the request served by p has been answered and nothing happened since
Latest(p, kind) ==
    /\ pc[p] = "idle" /\ aresp = "none"
    /\ loc[p].kind = kind /\ loc[p].resp # "none"

StockFailures == {"400 Product not found", "400 Insufficient stock"}
Refusal == "400 Cannot cancel shipped or delivered orders"

\* C1: after any placements and cancellations every product's stock is >= 0.
StockNeverNegative ==
    \A q \in DOMAIN products : products[q].stock >= 0

\* C2: two concurrent placements that each ask for the last unit of X: exactly
\* one is answered 201, the other is refused for insufficient stock, the stock
\* of X ends at 0 and exactly one order is stored.
LastUnit(p) ==
    /\ pc[p] = "idle" /\ loc[p].kind = "place" /\ loc[p].resp \notin {"none", "500"}
    /\ loc[p].n = 1 /\ Len(loc[p].items) = 1
    /\ loc[p].items[1].product_id = "X" /\ loc[p].items[1].quantity = 1
    /\ pre[p].orders = <<>>
    /\ pre[p].products["X"].stock = 1

LastUnitExactlyOneWins ==
    (LastUnit("r1") /\ LastUnit("r2")) =>
        /\ {loc["r1"].resp, loc["r2"].resp} = {"201", "400 Insufficient stock"}
        /\ products["X"].stock = 0
        /\ Len(orders) = 1

\* a line of the request that the catalog, as it was when the request began,
\* cannot serve
BadLine(p, k) ==
    LET item == loc[p].items[k]
    IN  \/ item.product_id \notin DOMAIN pre[p].products
        \/ item.quantity > pre[p].products[item.product_id].stock

\* C3: a placement with a line that names a missing product or asks for more
\* than the stock is refused, and a refused placement leaves products, carts
\* and orders as they were before the request, wherever the failing line is.
PlacementAllOrNothing ==
    \A p \in Procs : Latest(p, "place") =>
        /\ (\E k \in 1..Len(loc[p].items) : BadLine(p, k)) => loc[p].resp \in StockFailures
        /\ loc[p].resp \in StockFailures => Tables = pre[p]

PlacementRefusedAtSecondLine ==
    \E p \in Procs :
        /\ Latest(p, "place") /\ loc[p].resp \in StockFailures
        /\ Len(loc[p].items) = 2 /\ ~BadLine(p, 1) /\ BadLine(p, 2)
        /\ \E u \in Users, q \in Products : cart[u][q] > 0

\* C4: a cancellation of an order that is already cancelled is refused
\* (InvalidTransition) and changes neither the order nor any stock.
CancelOfCancelledRefused ==
    \A p \in Procs :
        (Latest(p, "cancel") /\ loc[p].order # <<>> /\ loc[p].order.status = "cancelled") =>
            /\ loc[p].resp # "200"
            /\ Tables = pre[p]
            /\ loc[p].resp \notin {"403", "500"} => loc[p].resp = Refusal

\* C5 as stated: after a successful cancellation the order is cancelled and,
\* for every line of its snapshot, the product's stock is the stock before the
\* cancellation plus that line's quantity.
CancelRestoresEachLine ==
    \A p \in Procs : (Latest(p, "cancel") /\ loc[p].resp = "200") =>
        /\ orders[loc[p].id].status = "cancelled"
        /\ \A k \in 1..Len(loc[p].order.items) :
             LET item == loc[p].order.items[k]
             IN  item.product_id \in DOMAIN products =>
                   products[item.product_id].stock =
                       pre[p].products[item.product_id].stock + item.quantity

\* C5 amended: after a successful cancellation the order is cancelled and every
\* product's stock is the stock before the cancellation plus the sum of the
\* quantities of the snapshot's lines that name it; when the cancellation
\* directly follows the placement, every stock is back at its value before the
\* placement.
CancelRestoresSnapshot ==
    \A p \in Procs : (Latest(p, "cancel") /\ loc[p].resp = "200") =>
        /\ orders[loc[p].id].status = "cancelled"
        /\ \A q \in DOMAIN products :
             products[q].stock = pre[p].products[q].stock + QtyOf(loc[p].order.items, q)
        /\ loc[p].base # <<>> =>
             \A q \in DOMAIN products : products[q].stock = loc[p].base[q].stock

\* stock 3, order of 2 (stock 1), cancel (stock 3)
CancelAfterPlacementRestored ==
    \E p \in Procs :
        /\ Latest(p, "cancel") /\ loc[p].resp = "200" /\ loc[p].base # <<>>
        /\ loc[p].base["X"].stock = 3 /\ pre[p].products["X"].stock = 1
        /\ products["X"].stock = 3

\* a cancellation that adds to a stock an admin wrote after the placement
CancelAfterStockEdit ==
    \E p \in Procs :
        /\ Latest(p, "cancel") /\ loc[p].resp = "200" /\ nadmin > 0
        /\ \E q \in DOMAIN products :
             /\ QtyOf(loc[p].order.items, q) > 0
             /\ pre[p].products[q].stock = 0

\* C6: an order's status only moves forward along pending, processing,
\* shipped, delivered, or from pending or processing to cancelled.
Rank(st) == CASE st = "pending" -> 1 [] st = "processing" -> 2
              [] st = "shipped" -> 3 [] st = "delivered" -> 4 [] OTHER -> 0

AllowedMove(old, new) ==
    \/ old = new
    \/ old # "cancelled" /\ new # "cancelled" /\ Rank(old) < Rank(new)
    \/ old \in {"pending", "processing"} /\ new = "cancelled"

StatusMovesForward ==
    [][\A i \in DOMAIN orders : AllowedMove(orders[i].status, orders'[i].status)]_vars

\* C7: a cancellation of a shipped or delivered order is refused with 400 and
\* leaves the order (status, reason) and every stock unchanged.
CancelOfShippedRefused ==
    \A p \in Procs :
        (Latest(p, "cancel") /\ loc[p].order # <<>>
            /\ loc[p].order.status \in {"shipped", "delivered"}) =>
            /\ Tables = pre[p]
            /\ loc[p].resp \in {Refusal, "403"}
            /\ Permitted(loc[p].actor, loc[p].order) => loc[p].resp = Refusal

CancelOfShippedSeen ==
    \E p \in Procs :
        /\ Latest(p, "cancel") /\ loc[p].resp = Refusal
        /\ loc[p].order.status = "shipped"
        /\ loc[p].actor = loc[p].order.user_id

\* C8: the stored lines and total of an order never change after placement,
\* and the stored total is the sum of the stored line totals.
OrderSnapshotFrozen ==
    /\ [](\A i \in DOMAIN orders : orders[i].total_price = SumTotals(orders[i].items))
    /\ [][\A i \in DOMAIN orders :
            /\ orders'[i].items = orders[i].items
            /\ orders'[i].total_price = orders[i].total_price]_vars

\* an order whose product has since been repriced or deleted
OrderOutlivesProduct ==
    \E i \in DOMAIN orders : \E k \in DOMAIN orders[i].items :
        LET line == orders[i].items[k]
        IN  /\ orders[i].status # "pending"
            /\ \/ line.product_id \notin DOMAIN products
               \/ products[line.product_id].price # line.price

\* C9: after a successful placement each stored line total is the catalog
\* price of the product times the requested quantity, and the stored total is
\* their sum; a price sent by the client plays no part.
TotalsFromCatalog ==
    \A p \in Procs : (Latest(p, "place") /\ loc[p].resp = "201") =>
        LET o == orders[loc[p].id]
        IN  /\ Len(o.items) = Len(loc[p].items)
            /\ \A k \in DOMAIN o.items :
                 /\ o.items[k].product_id = loc[p].items[k].product_id
                 /\ o.items[k].quantity = loc[p].items[k].quantity
                 /\ o.items[k].total =
                      pre[p].products[loc[p].items[k].product_id].price
                          * loc[p].items[k].quantity
            /\ o.total_price = SumTotals(o.items)

\* two lines, 2 x 10 and 1 x 5, total 25
TotalTwentyFive ==
    \E p \in Procs :
        /\ Latest(p, "place") /\ loc[p].resp = "201"
        /\ Len(loc[p].items) = 2
        /\ loc[p].items[1].product_id = "X" /\ loc[p].items[1].quantity = 2
        /\ loc[p].items[2].product_id = "Y" /\ loc[p].items[2].quantity = 1
        /\ orders[loc[p].id].total_price = 25

\* C10: a cancellation by an actor who is neither the owner nor an admin is
\* answered 403 and leaves order and stock unchanged; the owner and an admin
\* pass the permission check.
Owner(p) == loc[p].actor = loc[p].order.user_id

CancelPermission ==
    \A p \in Procs : (Latest(p, "cancel") /\ loc[p].order # <<>>) =>
        /\ (~Owner(p) /\ role(loc[p].actor) # "admin") =>
               loc[p].resp = "403" /\ Tables = pre[p]
        /\ (Owner(p) \/ role(loc[p].actor) = "admin") => loc[p].resp # "403"

CancelForbiddenSeen ==
    \E p \in Procs :
        /\ Latest(p, "cancel") /\ loc[p].order # <<>> /\ loc[p].resp = "403"
        /\ loc[p].order.status = "pending"

\* C11: in every state every order's status is one of pending, processing,
\* shipped, delivered, cancelled and its payment status one of pending, paid,
\* failed, refunded; an admin's update whose value is absent or no member of
\* the set is answered 400 and leaves the orders as they were.
StatusValuesValid ==
    /\ [](\A i \in DOMAIN orders :
            /\ orders[i].status \in {"pending", "processing", "shipped", "delivered", "cancelled"}
            /\ orders[i].payment_status \in {"pending", "paid", "failed", "refunded"})
    /\ [][\A u \in Users, id \in 1..MaxConcOrders :
            /\ \A st \in {"bogus", Absent}, tn \in TrackingInputs :
                 (users[u] = "admin" /\ SetStatus(u, id, st, tn)) =>
                     aresp' = "400 Invalid status" /\ orders' = orders
            /\ \A ps \in {"bogus", Absent} :
                 (users[u] = "admin" /\ SetPaymentStatus(u, id, ps)) =>
                     aresp' = "400 Invalid payment status" /\ orders' = orders]_vars

\* an invalid payment status was refused for a store that holds an order
InvalidPaymentStatusRefused ==
    /\ aresp = "400 Invalid payment status"
    /\ orders # <<>>

\* C12: a status update changes nothing but the status of its order and, when
\* one is supplied, the tracking number; a payment status update changes
\* nothing but the payment status of its order.  Stock, carts, the other orders
\* and the order's lines and total stay, whatever the new status is.
StatusUpdateFrame ==
    [][\A u \in Users, id \in 1..MaxConcOrders + 1 :
         /\ \A st \in StatusInputs, tn \in TrackingInputs :
              SetStatus(u, id, st, tn) =>
                  /\ products' = products /\ cart' = cart
                  /\ DOMAIN orders' = DOMAIN orders
                  /\ \A i \in DOMAIN orders :
                       /\ i # id => orders'[i] = orders[i]
                       /\ \A f \in DOMAIN orders[i] \ {"status", "tracking_number"} :
                            orders'[i][f] = orders[i][f]
                       /\ tn = Absent => orders'[i].tracking_number = orders[i].tracking_number
                  /\ aresp' = "200" =>
                       /\ orders'[id].status = st
                       /\ tn # Absent => orders'[id].tracking_number = tn
         /\ \A ps \in PaymentStatusInputs :
              SetPaymentStatus(u, id, ps) =>
                  /\ products' = products /\ cart' = cart
                  /\ DOMAIN orders' = DOMAIN orders
                  /\ \A i \in DOMAIN orders :
                       /\ i # id => orders'[i] = orders[i]
                       /\ \A f \in DOMAIN orders[i] \ {"payment_status"} :
                            orders'[i][f] = orders[i][f]
                  /\ aresp' = "200" => orders'[id].payment_status = ps]_vars

\* order 1 was set to cancelled and order 2 to shipped with a tracking number:
\* the stock is where it was, the cart line is still there
CancelledAndShippedByAdmin ==
    /\ aresp = "200" /\ Len(orders) = 2
    /\ orders[1].status = "cancelled" /\ orders[1].cancellation_reason = NoReason
    /\ orders[2].status = "shipped" /\ orders[2].tracking_number = "TN1"
    /\ orders[2].total_price = 15
    /\ products["X"].stock = 1 /\ products["Y"].stock = 2
    /\ cart["u1"]["Y"] = 1

\* C20: an admin-only request (order status, payment status, list of all
\* orders, product create, update, delete, approve, reject) of an authenticated
\* caller whose role is not admin is answered 403, and no order, product or
\* cart line changes.
AdminOnlyForbidden ==
    [][\A u \in Users : users[u] # "admin" =>
         ((\/ \E id \in 1..MaxConcOrders + 1, st \in StatusInputs, tn \in TrackingInputs :
                 SetStatus(u, id, st, tn)
           \/ \E id \in 1..MaxConcOrders + 1, ps \in PaymentStatusInputs :
                 SetPaymentStatus(u, id, ps)
           \/ ListAllOrders(u)
           \/ \E id \in Products, new \in NewProducts : CreateProduct(u, id, new)
           \/ \E id \in Products, up \in ProductUpdates : UpdateProduct(u, id, up)
           \/ \E id \in Products : DeleteProduct(u, id)
           \/ \E id \in Products, approved \in BOOLEAN : SetApproved(u, id, approved))
          => /\ aresp' = "403"
             /\ products' = products /\ orders' = orders /\ cart' = cart)]_vars

\* a customer's admin request was refused after an admin's had been served
ForbiddenAfterAdminChange ==
    /\ aresp = "403" /\ nadmin = 2
    /\ orders[1].status = "shipped"

\* C13 as stated: a placement whose item list is missing or empty, or whose
\* shipping address lacks one of full name, address line, city, state, postal
\* code, phone, is answered 400 at once and changes no order, stock or cart.
PlacementRequiresShipping ==
    [][\A p \in Procs, u \in Buyers, n \in 0..MaxItems, sh \in ShippingInputs :
         (PlaceOrder(p, u, n, sh) /\ (n = 0 \/ sh # ShippingFields)) =>
             /\ loc'[p].resp \in {"400 Items are required",
                                  "400 Shipping information is required"}
             /\ products' = products /\ orders' = orders /\ cart' = cart]_vars

\* C14: after a successful placement the cart of the placing user has no line
\* at all, and the lines of every other user are as they were before.
PlacementClearsOwnCart ==
    \A p \in Procs : (Latest(p, "place") /\ loc[p].resp = "201") =>
        /\ \A q \in Products : cart[loc[p].actor][q] = 0
        /\ \A u \in Users \ {loc[p].actor} : cart[u] = pre[p].cart[u]

\* u1 ordered X only: the Y line of u1 is gone, the X line of u2 is still there
CartLineNotOrderedCleared ==
    \E p \in Procs :
        /\ Latest(p, "place") /\ loc[p].resp = "201" /\ loc[p].actor = "u1"
        /\ QtyOf(loc[p].items, "Y") = 0
        /\ pre[p].cart["u1"]["Y"] = 1 /\ cart["u1"]["Y"] = 0
        /\ cart["u2"]["X"] = 1

\* the cart request handler p starts in this step, read off its record
AddStarts(p) ==
    /\ pc[p] = "idle" /\ nreq' = nreq + 1 /\ loc'[p].kind = "add"
    /\ AddToCart(p, loc'[p].actor, loc'[p].product_id, loc'[p].quantity)
UpdateStarts(p) ==
    /\ pc[p] = "idle" /\ nreq' = nreq + 1 /\ loc'[p].kind = "update"
    /\ UpdateCartItem(p, loc'[p].actor, loc'[p].line, loc'[p].quantity)
RemoveStarts(p) ==
    /\ pc[p] = "idle" /\ nreq' = nreq + 1 /\ loc'[p].kind = "remove"
    /\ RemoveCartItem(p, loc'[p].actor, loc'[p].line)

\* C15: a successful add or update leaves the line with a quantity q,
\* 1 <= q <= the stock the request selected (an add on an existing line: q is
\* the existing quantity it selected plus the requested quantity); a request
\* that would exceed that stock is answered 400 and leaves the carts unchanged.
CartQuantityWithinStock ==
    [][\A p \in Procs :
         /\ AddStarts(p) =>
              LET pid == loc'[p].product_id
                  q   == loc'[p].quantity
              IN  /\ cart' = cart
                  /\ (q >= 1 /\ pid \in DOMAIN products /\ products[pid].approved_by_ai
                          /\ q > products[pid].stock) =>
                         loc'[p].resp = "400 Insufficient stock"
         /\ UpdateStarts(p) =>
              LET line == loc'[p].line
                  q    == loc'[p].quantity
              IN  /\ cart' = cart
                  /\ (q >= 1 /\ line[1] = loc'[p].actor /\ cart[line[1]][line[2]] > 0
                          /\ q > products[line[2]].stock) =>
                         loc'[p].resp = "400 Not enough stock available"
         /\ AddExisting(p) =>
              /\ cart' = cart
              /\ LET e == cart[loc[p].actor][loc[p].product_id]
                 IN  (e > 0 /\ e + loc[p].quantity > loc[p].stock) =>
                         loc'[p].resp = "400 Not enough stock available"
         /\ (AddUpdate(p) /\ loc'[p].resp = "200") =>
              LET q == cart'[loc[p].actor][loc[p].product_id]
              IN  q = loc[p].existing + loc[p].quantity /\ 1 <= q /\ q <= loc[p].stock
         /\ (AddInsert(p) /\ loc'[p].resp = "201") =>
              LET q == cart'[loc[p].actor][loc[p].product_id]
              IN  q = loc[p].quantity /\ 1 <= q /\ q <= loc[p].stock
         /\ (UpdateWrite(p) /\ loc'[p].resp = "200") =>
              LET q == cart'[loc[p].line[1]][loc[p].line[2]]
              IN  q = loc[p].quantity /\ 1 <= q /\ q <= loc[p].stock]_vars

\* an add of 2 on a line of 1 was served with the stock of 3 and another add
\* of 2 on the same line refused
AddFillsLineToStock ==
    /\ \A p \in Procs : pc[p] = "idle" /\ loc[p].kind = "add" /\ loc[p].actor = "u1"
                        /\ loc[p].product_id = "Y" /\ loc[p].quantity = 2
    /\ loc["r1"].resp = "200" /\ loc["r2"].resp = "400 Not enough stock available"
    /\ cart["u1"]["Y"] = 3 /\ products["Y"].stock = 3

\* C16 as stated: adds of one product by one user, interleaved or not, end
\* with the line's quantity being what it was plus the sum of the quantities of
\* the adds that succeeded (one line per user and product).
AddsSumUp ==
    (/\ nreq = 2
     /\ \A p \in Procs : pc[p] = "idle" /\ loc[p].kind = "add"
     /\ loc["r1"].actor = loc["r2"].actor /\ loc["r1"].product_id = loc["r2"].product_id
     /\ loc["r1"].product_id \in DOMAIN products) =>
        LET u   == loc["r1"].actor
            pid == loc["r1"].product_id
            added(p) == IF loc[p].resp \in {"200", "201"} THEN loc[p].quantity ELSE 0
        IN  cart[u][pid] = pre["r1"].cart[u][pid] + added("r1") + added("r2")

\* C17: no cart request of a user changes a line of another user; a GET
\* answers with the caller's lines only; an update that names another user's
\* line is answered 404 and a remove that names it deletes nothing.
CartIsolation ==
    [][\A p \in Procs :
         /\ (\/ AddStarts(p) \/ UpdateStarts(p) \/ RemoveStarts(p)
             \/ ClearCart(p, loc'[p].actor) \/ GetCart(p, loc'[p].actor)) =>
              /\ \A b \in Users \ {loc'[p].actor} : cart'[b] = cart[b]
              /\ \A ln \in loc'[p].lines : ln[1] = loc'[p].actor
         /\ (AddExisting(p) \/ AddUpdate(p) \/ AddInsert(p) \/ UpdateWrite(p)) =>
              \A b \in Users \ {loc[p].actor} : cart'[b] = cart[b]
         /\ (UpdateStarts(p) /\ loc'[p].line[1] # loc'[p].actor /\ loc'[p].quantity >= 1) =>
              loc'[p].resp = "404 Cart item not found"
         /\ (RemoveStarts(p) /\ loc'[p].line[1] # loc'[p].actor) => cart' = cart]_vars

\* u1 asked to update the X line of u2: 404, and the line is still there
ForeignLineUpdateNotFound ==
    \E p \in Procs :
        /\ Latest(p, "update") /\ loc[p].resp = "404 Cart item not found"
        /\ loc[p].actor = "u1" /\ loc[p].line = <<"u2", "X">>
        /\ cart["u2"]["X"] = 1

\* authenticateToken has acted on the request
PastAuthenticateToken ==
    /\ gate.route \in {"orders", "admin"}
    /\ gate.at # 1

\* C18 as stated: on a route with mandatory authentication a request without
\* token or with a token the identity provider does not accept is answered 401
\* and its handler does not run; a request the middleware lets through carries
\* the id, email and role of the token's user.
MandatoryAuthUnauthorized ==
    PastAuthenticateToken =>
        /\ (gate.token = "none" \/ gate.token \notin authusers) =>
               gate.status = "401" /\ gate.at = 0
        /\ gate.at >= 2 =>
               /\ gate.token \in authusers
               /\ gate.user = [id |-> gate.token, email |-> gate.token,
                               role |-> users[gate.token]]

\* C19 as stated: when the identity provider accepts the token and the users
\* table has no row of the account, the request is not failed: it goes on with
\* the role user, under authenticateToken and under optionalAuth alike.
MissingRoleRowDefaultsToUser ==
    (/\ gate.route \in Routes
     /\ gate.at # 1
     /\ gate.token \in authusers /\ gate.token \notin DOMAIN users) =>
        /\ gate.status # "500"
        /\ gate.user.role = "user"

\* C23: after any sequence of admin product creations and updates, every
\* product with an original price set has discount_percentage =
\* round((original_price - price) / original_price * 100), also after an update
\* of the price alone or of the original price alone.
DiscountMatchesPrices ==
    \A q \in DOMAIN products :
        products[q].original_price # 0 =>
            \E d \in -100..100 :
                /\ products[q].discount_percentage = d
                \* d is the integer nearest to the quotient, a half goes up
                /\ 2 * d * products[q].original_price
                       <= 200 * (products[q].original_price - products[q].price)
                              + products[q].original_price
                /\ 200 * (products[q].original_price - products[q].price)
                       + products[q].original_price
                       < 2 * (d + 1) * products[q].original_price

\* C21: on the routes with optionalAuth (GET /products, GET /products/:id)
\* the answer for a catalog state and a path is the one a request without
\* credential gets, whatever token the request carries; a token that fails
\* validation never produces an error answer of the middleware, the request
\* reaches the handler without identity.
OptionalRoutes == {"products", "product"}

AnonymousAnswer ==
    IF gate.route = "products" THEN ListProducts(NoUser) ELSE GetProduct(NoUser, gate.path[1])

OptionalAuthTransparent ==
    /\ [](gate.route \in OptionalRoutes =>
             /\ gate.status \notin {"401", "403", "500"}
             /\ (Stage = "handler" /\ GetUser(gate.token) = "null") => gate.user = NoUser)
    /\ [][(Handler /\ gate.route \in OptionalRoutes) =>
              /\ gate'.status = AnonymousAnswer.status
              /\ gate'.body = AnonymousAnswer.body]_vars

\* an admin and a request with an invalid token read the product list while
\* a product is unapproved: the invalid token got the list without that product
InvalidTokenReadsCatalog ==
    /\ gate.route = "products" /\ gate.at = 0 /\ gate.token = "garbage"
    /\ gate.status = "200"
    /\ \E q \in DOMAIN products : ~products[q].approved_by_ai
    /\ gate.body = [products |-> {<<q, products[q]>> :
                                     q \in {r \in DOMAIN products : products[r].approved_by_ai}}]

\* C26: tracking by tracking number answers with the milestones of the
\* order's current status alone: Order Placed for pending and cancelled, then
\* Processing for processing, then Shipped for shipped, then Delivered for
\* delivered, in this order; the lookup needs no credential and changes no
\* table.
MilestonesOf(status) ==
    CASE status = "processing" -> <<"Order Placed", "Processing">>
      [] status = "shipped"    -> <<"Order Placed", "Processing", "Shipped">>
      [] status = "delivered"  -> <<"Order Placed", "Processing", "Shipped", "Delivered">>
      [] OTHER                 -> <<"Order Placed">>

TrackingFollowsStatus ==
    /\ [](gate.route = "track" /\ gate.at = 0 =>
             /\ gate.status \in {"200", "404"}
             /\ gate.status = "200" =>
                    /\ gate.body.current_status \in validStatuses
                    /\ [i \in 1..Len(gate.body.tracking_history) |->
                            gate.body.tracking_history[i].status]
                           = MilestonesOf(gate.body.current_status))
    /\ [][(Handler /\ gate.route = "track") =>
              /\ UNCHANGED <<products, cart, orders, users, authusers>>
              /\ gate'.status = "200" =>
                     /\ gate'.body.order_id \in 1..Len(orders)
                     /\ orders[gate'.body.order_id].tracking_number = gate.path[2]
                     /\ gate'.body.current_status = orders[gate'.body.order_id].status]_vars

\* a request without token tracks an order the admin has set to delivered
DeliveredOrderTracked ==
    /\ gate.route = "track" /\ gate.at = 0 /\ gate.token = "none"
    /\ gate.status = "200"
    /\ gate.body.current_status = "delivered"
    /\ Len(gate.body.tracking_history) = 4

\* C22: whatever the admin has created, approved and rejected, the public
\* product reads (the list and GET /products/:id) never answer with a product
\* whose approval flag is false, and adding a product that is missing or
\* unapproved to the cart answers 404 Product not found and adds nothing.
OnlyApprovedProductsPublic ==
    /\ [](gate.route \in OptionalRoutes /\ gate.at = 0 /\ gate.status = "200" =>
             IF gate.route = "products"
               THEN \A r \in gate.body.products : r[2].approved_by_ai
               ELSE gate.body.product[2].approved_by_ai)
    /\ [][\A p \in Procs :
              (/\ AddStarts(p)
               /\ loc'[p].product_id # Absent /\ loc'[p].quantity >= 1
               /\ \/ loc'[p].product_id \notin DOMAIN products
                  \/ ~products[loc'[p].product_id].approved_by_ai) =>
                  /\ pc'[p] = "idle"
                  /\ loc'[p].resp = "404 Product not found"
                  /\ cart' = cart]_vars

\* the list is read while X is unapproved and Y approved, and the customer's
\* request to add X has been answered 404
UnapprovedProductHidden ==
    /\ gate.route = "products" /\ gate.at = 0 /\ gate.status = "200"
    /\ "X" \in DOMAIN products /\ ~products["X"].approved_by_ai
    /\ "Y" \in DOMAIN products /\ products["Y"].approved_by_ai
    /\ gate.body.products = {<<"Y", products["Y"]>>}
    /\ loc["r1"].kind = "add" /\ loc["r1"].product_id = "X"
    /\ loc["r1"].resp = "404 Product not found"

\* C24: a placement that runs alone decrements what it checked: for every
\* product the quantity removed, summed over all lines of the request that
\* name the product, does not exceed the stock before the request, and the
\* stock after is the stock before minus that sum.
DecrementWithinCheckedStock ==
    \A p \in Procs :
        (Latest(p, "place") /\ loc[p].resp = "201") =>
            \A q \in DOMAIN pre[p].products :
                /\ QtyOf(loc[p].items, q) <= pre[p].products[q].stock
                /\ q \in DOMAIN products
                /\ products[q].stock = pre[p].products[q].stock - QtyOf(loc[p].items, q)

\* C25: no stock write is lost: when the restore of a cancellation interleaves
\* with the decrement of a placement or the restore of another cancellation,
\* the stock of every product ends at its initial value minus every quantity
\* decremented plus every quantity restored.
DecrementedBy(p, q) ==
    IF loc[p].kind = "place" /\ loc[p].resp = "201" THEN QtyOf(loc[p].items, q) ELSE 0
RestoredBy(p, q) ==
    IF loc[p].kind = "cancel" /\ loc[p].resp = "200" THEN QtyOf(loc[p].order.items, q) ELSE 0

NoStockWriteLost ==
    (/\ nreq = 2
     /\ \A p \in Procs : pc[p] = "idle" /\ loc[p].kind \in {"place", "cancel"}
     /\ \E p \in Procs : loc[p].kind = "cancel" /\ loc[p].resp = "200") =>
        \A q \in Products :
            products[q].stock = pre["r1"].products[q].stock
                                   - DecrementedBy("r1", q) - DecrementedBy("r2", q)
                                   + RestoredBy("r1", q) + RestoredBy("r2", q)

\* C28: with requests one at a time and no admin edit of the products, after
\* any sequence of placements, cancellations and admin status updates every
\* product satisfies: stock + the quantities of the product summed over the
\* lines of all orders that are not cancelled = the initial stock.
RECURSIVE CommittedIn(_, _)
CommittedIn(os, q) ==
    IF os = <<>> THEN 0
    ELSE (IF Head(os).status # "cancelled" THEN QtyOf(Head(os).items, q) ELSE 0)
             + CommittedIn(Tail(os), q)

StockConserved ==
    Quiet => \A q \in Products :
                 /\ q \in DOMAIN products
                 /\ products[q].stock + CommittedIn(orders, q) = MaxStock

\* C29: a placement never stores a line whose quantity is below 1: a request
\* with such a line is rejected, so no stored line has a total that is zero
\* or negative and no placement raises the stock of a product.
NoNonPositiveLine ==
    /\ [](\A i \in 1..Len(orders) : \A j \in 1..Len(orders[i].items) :
              /\ orders[i].items[j].quantity >= 1
              /\ orders[i].items[j].total > 0)
    /\ [][\A q \in DOMAIN products :
              q \in DOMAIN products' /\ products'[q].stock <= products[q].stock]_vars

\* C30: every POST /auth/admin-login request eventually receives a response,
\* whatever the identity provider answers to the sign-in and to the sign-up;
\* with wrong credentials the response is 401 and no user row is created or
\* changed, and a role becomes admin only through this route with the fixed
\* credentials.
WrongCredentialsRefused ==
    \A input \in LoginInputs :
        (AdminLogin(input[1], input[2]) /\ input # <<ADMIN_EMAIL, ADMIN_PASSWORD>>) =>
            gate'.status = "401" /\ users' = users /\ authusers' = authusers

AdminOnlyByLogin ==
    (\E u \in DOMAIN users' :
        users'[u] = "admin" /\ (u \notin DOMAIN users \/ users[u] # "admin")) =>
        gate.route = "admin-login" /\ gate.input = <<ADMIN_EMAIL, ADMIN_PASSWORD>>

AdminLoginAnswered ==
    /\ \A n \in 1..MaxLogins :
           (gate.route = "admin-login" /\ nreq = n)
               ~> (gate.route = "admin-login" /\ nreq = n /\ gate.status # "none")
    /\ [][WrongCredentialsRefused /\ AdminOnlyByLogin]_vars

\* C27: GET /products/categories is served by the categories handler, which
\* answers with the category rows in ascending sort order; the route
\* GET /products/:id registered before it does not take the request (it would
\* answer 404 Product not found for the id "categories").
CategoriesServedByCategoriesHandler ==
    gate.path = <<"categories">> =>
        /\ gate.route = "categories"
        /\ gate.at = 0 =>
               /\ gate.status = "200"
               /\ "categories" \in DOMAIN gate.body
               /\ \A i, j \in 1..Len(gate.body.categories) :
                      i < j => gate.body.categories[i].sort_order
                                  <= gate.body.categories[j].sort_order
====
